---- MODULE Spec2Model ----
(***************************************************************************)
(* Live session audio pipeline of Hypermind                                *)
(* (src/components/ChatInterface.tsx, LiveSession; src/lib/utils.ts).      *)
(*                                                                         *)
(* One LiveSession component instance and the current run of its effect:   *)
(* startSession, the four transport callbacks, the 'ended' listener of     *)
(* each playback source, the capture handler, the video interval, the      *)
(* buttons and the effect's cleanup.  Specifications: Spec (lifecycle),    *)
(* SpecPlayback (scheduler), SpecCapture (capture loop), SpecVideo (video  *)
(* sampler), SpecVideoRerender (video sampler across a re-run of the       *)
(* effect), SpecRerender (lifecycle under re-renders of the parent),       *)
(* SpecInbound (messages up to and after teardown), SpecOutbound (what is  *)
(* sent before and after the transport opens), SpecCodec (PCM16 and base64 *)
(* of one sample), SpecEncode (PCM16 conversion), SpecVolume (volume of    *)
(* one block), SpecDecode (decodeAudioData).                               *)
(*                                                                         *)
(* Time is the output AudioContext's currentTime in units of 100 ms.       *)
(* An `await` is a suspension point: the handler's continuation is a       *)
(* separate step, and continuations run in the order they were suspended   *)
(* (decodeAudioData of utils.ts never suspends itself, so its promise      *)
(* settles when it returns and the continuations queue first-in first-out).*)
(***************************************************************************)
EXTENDS Integers, Sequences, FiniteSets

VARIABLES
    mounted,        \* `let mounted` of the effect closure
    isLiveOpen,     \* ChatInterface state: the LiveSession is rendered
    onCloseCalls,   \* number of calls of the onClose prop
    pc,             \* position of startSession
    streamLive,     \* streamRef.current is set and its tracks are live
    cleanupSet,     \* cleanupFunc has been assigned
    intervalActive, \* videoInterval is scheduled
    transport,      \* the connection made by ai.live.connect
    closeRequested, \* cleanupFunc ran: session.close() follows the promise
    isConnected,    \* React state isConnected
    capturing,      \* scriptProcessor.onaudioprocess is installed
    ctxClosed,      \* audioContextRef.current.close() was called
    now,            \* audioContextRef.current.currentTime
    nextStartTime,  \* nextStartTimeRef.current
    sources,        \* sourcesRef.current, as indices into chunks
    chunks,         \* every inbound audio chunk handled, in arrival order
    decodeQ,        \* chunks whose handler is suspended at the await
    lastInterruptAt,\* history: currentTime at the latest interruption, or -1
    quiet,          \* history: an interruption was processed at this instant
                    \*   with no handler suspended, and no chunk arrived since
    burst,          \* history: the current run of chunks that arrived at one
                    \*   instant, see NoBurst
    errorLogged,    \* onerror has written to the console
    staleRuns,      \* the transports of earlier runs of the effect, whose
                    \*   cleanup has run
    isMicOn,        \* React state isMicOn
    isVideoOn,      \* React state isVideoOn
    seenMicOn,      \* isMicOn as the effect's closures see it
    seenVideoOn,    \* isVideoOn as the effect's closures see it
    seenConnected,  \* isConnected as the effect's closures see it
    sessionResolved,\* sessionPromise has resolved
    thenQ,          \* callbacks passed to sessionPromise.then, not yet run
    sentAudio,      \* audio frames handed to session.sendRealtimeInput
    blocks,         \* number of audioprocess events delivered
    wall,           \* Date.now(), in steps of WallStepMs after WallStartMs
    lastVolumeUpdate, \* lastVolumeUpdateRef.current
    volumeUpdates,  \* history: Date.now() at each call of setVolume
    videoReady,     \* video.readyState >= 2
    videoTicks,     \* number of runs of the videoInterval callback
    videoSent,      \* number of image frames handed to sendRealtimeInput
    videoDue,       \* history: number of ticks at which the camera was
                    \*   enabled, the video ready and the session connected
    codecPc,        \* position of one sample in the codec path
    sampleK,        \* the sample captured, as k of x = k / 32768
    frameText,      \* the base64 text of the sample's frame, as sextets
    decodedK,       \* the sample decoded, as k of y = k / 32768
    sampleRem,      \* 1 if the sample lies half a step above k / 32768
    mixedSeen,      \* history: a message with both the interrupted flag and
                    \*   audio data has been handled
    ignoredSeen,    \* history: a callback has returned at `if (!mounted)`
    meterPc,        \* position of one block in the volume computation
    meterBlock,     \* the block's samples, in quarters of full scale
    volumeSq,       \* the square of the volume computed, times the number
                    \*   of samples, times 16
    decPc,          \* position of one call of decodeAudioData
    decBytes,       \* data.byteLength
    decChannels,    \* numChannels
    decFirst,       \* the first 16-bit element of the data, if any
    decResult       \* what decodeAudioData returned or threw

vars == << mounted, isLiveOpen, onCloseCalls, pc, streamLive, cleanupSet,
           intervalActive, transport, closeRequested, isConnected, capturing,
           ctxClosed, now, nextStartTime, sources, chunks, decodeQ,
           lastInterruptAt, quiet, burst, errorLogged, staleRuns, isMicOn,
           isVideoOn, seenMicOn, seenVideoOn, seenConnected, sessionResolved,
           thenQ, sentAudio, blocks, wall, lastVolumeUpdate, volumeUpdates,
           videoReady, videoTicks, videoSent, videoDue, codecPc, sampleK,
           frameText, decodedK, sampleRem, mixedSeen, ignoredSeen, meterPc,
           meterBlock, volumeSq, decPc, decBytes, decChannels, decFirst,
           decResult >>

lifecycleVars == << mounted, isLiveOpen, onCloseCalls, pc, streamLive,
                    cleanupSet, intervalActive, transport, closeRequested,
                    isConnected, capturing, ctxClosed >>

historyVars == << lastInterruptAt, quiet, burst >>

playbackVars == << nextStartTime, sources, chunks, decodeQ, historyVars >>

renderVars == << isMicOn, isVideoOn, seenMicOn, seenVideoOn, seenConnected >>

captureVars == << sessionResolved, thenQ, sentAudio, blocks, wall,
                  lastVolumeUpdate, volumeUpdates >>

videoVars == << videoReady, videoTicks, videoSent, videoDue >>

codecVars == << codecPc, sampleK, frameText, decodedK >>

meterVars == << meterPc, meterBlock, volumeSq >>

decodeVars == << decPc, decBytes, decChannels, decFirst, decResult >>

\* What the actions of the session leave alone: the inputs and results of
\* the pure functions, and the history of messages.
restVars == << sampleRem, mixedSeen, ignoredSeen, meterVars, decodeVars >>

ioVars == << staleRuns, renderVars, captureVars, videoVars, codecVars,
             restVars >>

----------------------------------------------------------------------------
(* Bounds *)

MaxTime == 3
\* Chunks per run: of the scheduler alone, and of a whole session.
MaxChunks == 2
MaxSessionChunks == 1
\* Audio blocks delivered, steps of Date.now(), runs of the video interval.
MaxBlocks == 3
MaxWallSteps == 4
MaxVideoTicks == 3
\* Re-renders of ChatInterface while the session is shown.
MaxRerenders == 1

\* Durations of decoded buffers, in units of 100 ms: 300 ms, 500 ms, 1 s.
Durations == {3, 5, 10}

\* The payload of a chunk is well-formed PCM16 ("pcm", with the duration of
\* the buffer it decodes to) or an odd number of bytes ("odd": new
\* Int16Array(data.buffer) throws a RangeError inside decodeAudioData, so
\* its promise rejects and the handler's catch runs).
ChunkInputs == {<< d, "pcm" >> : d \in Durations} \cup {<< 0, "odd" >>}

----------------------------------------------------------------------------
(* Helpers *)

Max(a, b) == IF a >= b THEN a ELSE b

\* Variant: the cursor is set to currentTime, not to the larger of the two.
ClampCursorToNow(cursor, t) == t

\* Math.max(nextStartTimeRef.current, ctx.currentTime)
ClampCursor(cursor, t) == Max(cursor, t)

\* Variant: the duration is not added to the cursor.
AdvanceCursorNoAdd(cursor, d) == cursor

\* nextStartTimeRef.current += audioBuffer.duration
AdvanceCursor(cursor, d) == cursor + d

\* Variant: source.start(ctx.currentTime).
StartArgNow(cursor) == now

\* the `when` argument of source.start(nextStartTimeRef.current)
StartArg(cursor) == cursor

\* A chunk that has been handed to the sink (source.start was called).
Scheduled(c) == c.st \in {"scheduled", "ended"}

\* AudioBufferSourceNode.start(when) with when in the past plays at once:
\* playFrom is the later of `when` and currentTime at the call.
PlayEnd(c) == c.playFrom + c.dur

\* st: "decoding" (the handler is suspended at the await), "dropped" (the
\* catch ran), "scheduled" (source.start was called), "ended" (the 'ended'
\* listener ran).  stopped: source.stop() was called.  start: the argument
\* of source.start.  History: crossed, an interruption was processed while
\* the handler was suspended.
NewChunk(d, p) ==
    [st |-> "decoding", dur |-> d, payload |-> p, start |-> 0, playFrom |-> 0,
     stopped |-> FALSE, crossed |-> FALSE]

\* A chunk whose handler and source are done with: what only matters while
\* the source plays (playFrom, crossed) is forgotten.
Finished(c, st) == [c EXCEPT !.st = st, !.playFrom = 0, !.crossed = FALSE]

\* History of the chunks that arrived at one instant: a run begins with a
\* chunk that arrives while no handler is suspended, and goes on ("open")
\* until the clock advances ("closed"); an interruption, or a chunk arriving
\* at a later instant while a handler of the run is suspended, ends it.
\* first: index of its first chunk.  base: nextStartTimeRef.current once the
\* first chunk's handler had clamped it.  barge: the run began at the instant
\* of an interruption, as the first thing after it (see quiet).
NoBurst == [phase |-> "none", first |-> 0, base |-> 0, barge |-> FALSE]

----------------------------------------------------------------------------
\* No block is being measured.
InitMeterIdle ==
    /\ meterPc = "idle"
    /\ meterBlock = << >>
    /\ volumeSq = 0

\* decodeAudioData has not been called.
InitDecodeIdle ==
    /\ decPc = "idle"
    /\ decBytes = 0
    /\ decChannels = 1
    /\ decFirst = << 0, 0 >>
    /\ decResult = [kind |-> "none", frames |-> 0, first |-> 0]

\* The first render of LiveSession: useState(false), useState(true),
\* useState(true), useRef(0); the effect's closures see the state of the
\* render in which the effect ran.
InitSessionIo ==
    /\ errorLogged = FALSE
    /\ staleRuns = << >>
    /\ isMicOn = TRUE
    /\ isVideoOn = TRUE
    /\ seenMicOn = TRUE
    /\ seenVideoOn = TRUE
    /\ seenConnected = FALSE
    /\ sessionResolved = FALSE
    /\ thenQ = << >>
    /\ sentAudio = << >>
    /\ blocks = 0
    /\ wall = 0
    /\ lastVolumeUpdate = 0
    /\ volumeUpdates = << >>
    /\ videoReady = FALSE
    /\ videoTicks = 0
    /\ videoSent = 0
    /\ videoDue = 0
    /\ mixedSeen = FALSE
    /\ ignoredSeen = FALSE

InitIo ==
    /\ InitSessionIo
    /\ InitMeterIdle
    /\ InitDecodeIdle

\* No sample is in the codec path.
InitCodecIdle ==
    /\ codecPc = "idle"
    /\ sampleK = 0
    /\ sampleRem = 0
    /\ frameText = << >>
    /\ decodedK = 0

Init ==
    /\ mounted = TRUE
    /\ isLiveOpen = TRUE
    /\ onCloseCalls = 0
    /\ pc = "awaitMedia"
    /\ streamLive = FALSE
    /\ cleanupSet = FALSE
    /\ intervalActive = FALSE
    /\ transport = "none"
    /\ closeRequested = FALSE
    /\ isConnected = FALSE
    /\ capturing = FALSE
    /\ ctxClosed = FALSE
    /\ now = 0
    /\ nextStartTime = 0
    /\ sources = {}
    /\ chunks = << >>
    /\ decodeQ = << >>
    /\ lastInterruptAt = -1
    /\ quiet = FALSE
    /\ burst = NoBurst
    /\ InitIo
    /\ InitCodecIdle

----------------------------------------------------------------------------
(* startSession *)

\* getUserMedia resolves.  Nothing after the await looks at `mounted`: the
\* stream is stored, ai.live.connect is called, the video interval is set
\* and cleanupFunc is assigned.
MediaGranted ==
    /\ pc = "awaitMedia"
    /\ pc' = "running"
    /\ streamLive' = TRUE
    /\ transport' = "connecting"
    /\ intervalActive' = TRUE
    /\ cleanupSet' = TRUE
    /\ UNCHANGED << mounted, isLiveOpen, onCloseCalls, closeRequested,
                    isConnected, capturing, ctxClosed, now >>
    /\ UNCHANGED playbackVars
    /\ UNCHANGED << errorLogged, ioVars >>

\* Variant: the catch block does not call onClose().
CatchCallsOnCloseNever == FALSE

\* catch (e) { ...; if (mounted) onClose(); }
CatchCallsOnClose == mounted

\* getUserMedia rejects: the catch block runs.  onClose is the parent's
\* () => setIsLiveOpen(false).
MediaDenied ==
    /\ pc = "awaitMedia"
    /\ pc' = "failed"
    /\ IF CatchCallsOnClose
         THEN /\ onCloseCalls' = onCloseCalls + 1
              /\ isLiveOpen' = FALSE
         ELSE UNCHANGED << onCloseCalls, isLiveOpen >>
    /\ UNCHANGED << mounted, streamLive, cleanupSet, intervalActive, transport,
                    closeRequested, isConnected, capturing, ctxClosed, now >>
    /\ UNCHANGED playbackVars
    /\ UNCHANGED << errorLogged, ioVars >>

----------------------------------------------------------------------------
(* Transport callbacks *)

\* Variant: the callbacks do not look at `mounted`.
HandlerRunsAlways == TRUE

\* onopen and onmessage begin with `if (!mounted) return`.
HandlerRuns == mounted

\* Variant: the cursor is left at the initial 0 of the ref.
OpenCursorZero(t) == 0

\* nextStartTimeRef.current = audioContextRef.current?.currentTime || 0
OpenCursor(t) == t

\* onopen
TransportOpen ==
    /\ transport = "connecting"
    /\ transport' = "open"
    /\ IF HandlerRuns
         THEN /\ isConnected' = TRUE
              /\ nextStartTime' = OpenCursor(now)
              /\ capturing' = TRUE
         ELSE UNCHANGED << isConnected, nextStartTime, capturing >>
    /\ UNCHANGED << mounted, isLiveOpen, onCloseCalls, pc, streamLive,
                    cleanupSet, intervalActive, closeRequested, ctxClosed, now,
                    sources, chunks, decodeQ, historyVars >>
    /\ UNCHANGED << errorLogged, ioVars >>

\* The connect promise never resolves (handshake refused).  sessionPromise
\* is not awaited inside the try block, so no code of startSession runs.
ConnectFail ==
    /\ transport = "connecting"
    /\ transport' = "rejected"
    /\ UNCHANGED << mounted, isLiveOpen, onCloseCalls, pc, streamLive,
                    cleanupSet, intervalActive, closeRequested, isConnected,
                    capturing, ctxClosed, now >>
    /\ UNCHANGED playbackVars
    /\ UNCHANGED << errorLogged, ioVars >>

\* onclose: if (mounted) setIsConnected(false)
OnCloseCallback == IF mounted THEN isConnected' = FALSE
                              ELSE UNCHANGED isConnected

\* The remote side closes the transport.
ServerClose ==
    /\ transport = "open"
    /\ transport' = "closed"
    /\ OnCloseCallback
    /\ UNCHANGED << mounted, isLiveOpen, onCloseCalls, pc, streamLive,
                    cleanupSet, intervalActive, closeRequested, capturing,
                    ctxClosed, now >>
    /\ UNCHANGED playbackVars
    /\ UNCHANGED << errorLogged, ioVars >>

\* cleanupFunc's sessionPromise.then(session => session.close())
SessionClose ==
    /\ closeRequested
    /\ transport = "open"
    /\ transport' = "closed"
    /\ OnCloseCallback
    /\ UNCHANGED << mounted, isLiveOpen, onCloseCalls, pc, streamLive,
                    cleanupSet, intervalActive, closeRequested, capturing,
                    ctxClosed, now >>
    /\ UNCHANGED playbackVars
    /\ UNCHANGED << errorLogged, ioVars >>

----------------------------------------------------------------------------
(* onmessage *)

\* Variant: the interruption stops no source.
StopTargetsNone(S) == {}

\* sourcesRef.current.forEach(source => source.stop())
StopTargets(S) == S

\* Variant: the set is not cleared.
ClearedSetKeep(S) == S

\* sourcesRef.current.clear()
ClearedSet(S) == {}

\* Variant: the cursor is not reset.
InterruptCursorKeep(cursor, t) == cursor

\* nextStartTimeRef.current = audioContextRef.current.currentTime
InterruptCursor(cursor, t) == t

\* message.serverContent?.interrupted
Interrupt ==
    /\ transport = "open"
    /\ HandlerRuns
    /\ chunks' = [i \in DOMAIN chunks |->
                    LET c == chunks[i]
                    IN  [c EXCEPT !.stopped = (c.stopped \/ i \in StopTargets(sources)),
                                  !.crossed = (c.crossed \/ c.st = "decoding")]]
    /\ sources' = ClearedSet(sources)
    /\ nextStartTime' = InterruptCursor(nextStartTime, now)
    /\ lastInterruptAt' = now
    /\ quiet' = (decodeQ = << >>)
    /\ burst' = NoBurst
    /\ UNCHANGED decodeQ
    /\ UNCHANGED lifecycleVars
    /\ UNCHANGED now
    /\ UNCHANGED << errorLogged, ioVars >>

\* Variant: the interruption branch does not return.
ReturnsAfterInterruptNot == FALSE

\* The `return` that ends the interruption branch (line 1110).
ReturnsAfterInterrupt == TRUE

\* A message with serverContent.interrupted and with audio data in
\* modelTurn.parts[0].inlineData: the interruption branch runs and returns
\* before the audio is looked at.
InterruptWithAudio(d, p, limit) ==
    /\ transport = "open"
    /\ HandlerRuns
    /\ LET stoppedChunks ==
               [i \in DOMAIN chunks |->
                   LET c == chunks[i]
                   IN  [c EXCEPT !.stopped = (c.stopped \/ i \in StopTargets(sources)),
                                 !.crossed = (c.crossed \/ c.st = "decoding")]]
           goesOn == ~ReturnsAfterInterrupt /\ Len(chunks) < limit
       IN  /\ chunks' = IF goesOn THEN Append(stoppedChunks, NewChunk(d, p))
                                  ELSE stoppedChunks
           /\ decodeQ' = IF goesOn THEN Append(decodeQ, Len(chunks) + 1)
                                   ELSE decodeQ
    /\ sources' = ClearedSet(sources)
    /\ nextStartTime' = InterruptCursor(nextStartTime, now)
    /\ lastInterruptAt' = now
    /\ quiet' = (decodeQ = << >>)
    /\ burst' = NoBurst
    /\ mixedSeen' = TRUE
    /\ UNCHANGED << sampleRem, ignoredSeen, meterVars, decodeVars >>
    /\ UNCHANGED << staleRuns, renderVars, captureVars, videoVars, codecVars,
                    errorLogged >>
    /\ UNCHANGED lifecycleVars
    /\ UNCHANGED now

\* An audio chunk arrives: the handler runs up to the await.  At most
\* `limit` chunks arrive in a run of the model.
ChunkArrive(d, p, limit) ==
    /\ transport = "open"
    /\ HandlerRuns
    /\ Len(chunks) < limit
    /\ nextStartTime' = ClampCursor(nextStartTime, now)
    /\ chunks' = Append(chunks, NewChunk(d, p))
    /\ decodeQ' = Append(decodeQ, Len(chunks) + 1)
    /\ burst' = IF burst.phase = "open" THEN burst
                ELSE IF decodeQ = << >>
                  THEN [phase |-> "open", first |-> Len(chunks) + 1,
                        base |-> nextStartTime', barge |-> quiet]
                  ELSE NoBurst
    /\ quiet' = FALSE
    /\ UNCHANGED << sources, lastInterruptAt >>
    /\ UNCHANGED lifecycleVars
    /\ UNCHANGED now
    /\ UNCHANGED << errorLogged, ioVars >>

\* Variant: the handler suspended last resumes first.
NextToResumeLast(q) == q[Len(q)]

\* A message delivered after the cleanup: onmessage returns at once.
MessageIgnored ==
    /\ transport = "open"
    /\ ~HandlerRuns
    /\ ignoredSeen' = TRUE
    /\ UNCHANGED << sampleRem, mixedSeen, meterVars, decodeVars >>
    /\ UNCHANGED << staleRuns, renderVars, captureVars, videoVars, codecVars,
                    errorLogged >>
    /\ UNCHANGED lifecycleVars
    /\ UNCHANGED playbackVars
    /\ UNCHANGED now

\* Which suspended handler resumes next.
NextToResume(q) == Head(q)

\* The handler resumes after `await decodeAudioData(...)`: with a buffer
\* (lines 1129-1138) or with the rejection (the catch of line 1139).
\* Nothing after the await looks at `mounted` or at an interruption.
DecodeDone ==
    /\ decodeQ # << >>
    /\ LET i == NextToResume(decodeQ)
           c == chunks[i]
       IN  /\ IF c.payload = "pcm"
                THEN /\ chunks' = [chunks EXCEPT ![i] =
                                     [c EXCEPT !.st = "scheduled",
                                               !.start = StartArg(nextStartTime),
                                               !.playFrom = Max(StartArg(nextStartTime), now)]]
                     /\ nextStartTime' = AdvanceCursor(nextStartTime, c.dur)
                     /\ sources' = sources \cup {i}
                ELSE /\ chunks' = [chunks EXCEPT ![i] = Finished(c, "dropped")]
                     /\ UNCHANGED << nextStartTime, sources >>
           /\ decodeQ' = SelectSeq(decodeQ, LAMBDA j : j # i)
    /\ UNCHANGED historyVars
    /\ UNCHANGED lifecycleVars
    /\ UNCHANGED now
    /\ UNCHANGED << errorLogged, ioVars >>

\* source.addEventListener('ended', () => sourcesRef.current.delete(source))
\* The event is dispatched when the buffer has played to its end and when
\* stop() was called on it.
EndedEvent(i) ==
    /\ i \in DOMAIN chunks
    /\ chunks[i].st = "scheduled"
    /\ chunks[i].stopped \/ now >= PlayEnd(chunks[i])
    /\ chunks' = [chunks EXCEPT ![i] = Finished(chunks[i], "ended")]
    /\ sources' = sources \ {i}
    /\ UNCHANGED << nextStartTime, decodeQ, historyVars >>
    /\ UNCHANGED lifecycleVars
    /\ UNCHANGED now
    /\ UNCHANGED << errorLogged, ioVars >>

\* Variant: a transport error is handled as a "closed" notification.
TransportErrorFatal ==
    /\ transport = "open"
    /\ errorLogged' = TRUE
    /\ transport' = "closed"
    /\ isConnected' = FALSE
    /\ UNCHANGED << mounted, isLiveOpen, onCloseCalls, pc, streamLive,
                    cleanupSet, intervalActive, closeRequested, capturing,
                    ctxClosed, now >>
    /\ UNCHANGED playbackVars
    /\ UNCHANGED ioVars

\* onerror: console.error only.
TransportError ==
    /\ transport = "open"
    /\ errorLogged' = TRUE
    /\ UNCHANGED lifecycleVars
    /\ UNCHANGED playbackVars
    /\ UNCHANGED << now, ioVars >>

\* The audio clock advances (a closed context's clock stands still).
Tick ==
    /\ ~ctxClosed
    /\ now < MaxTime
    /\ now' = now + 1
    /\ burst' = IF burst.phase = "open" THEN [burst EXCEPT !.phase = "closed"]
                                        ELSE burst
    /\ quiet' = FALSE
    /\ UNCHANGED lifecycleVars
    /\ UNCHANGED << nextStartTime, sources, chunks, decodeQ, lastInterruptAt >>
    /\ UNCHANGED << errorLogged, ioVars >>

----------------------------------------------------------------------------
(* Outbound: capture, volume, video sampling *)

\* Date.now() after w steps of the wall clock.  A step is 50 ms; the clock
\* of the first render stands at 1000 (any value more than 100 above the
\* initial 0 of lastVolumeUpdateRef behaves alike).
DateNow(w) == 1000 + 50 * w

\* Variant: the volume is recomputed on every block.
ThrottleOpen(t, last) == TRUE

\* if (now - lastVolumeUpdateRef.current > 100)
ThrottlePassed(t, last) == t - last > 100

\* A callback passed to sessionPromise.then.  kind: "audio" or "video".
\* id: the block's or the tick's number.  History: micOn, isMicOn when the
\* block was delivered; early, the promise had not resolved when the callback
\* was registered; due, the camera was enabled, the video ready and the
\* session connected at the tick; videoOn, isVideoOn at the tick.
ThenEntry(kind, id, due) ==
    [kind |-> kind, id |-> id, micOn |-> isMicOn, early |-> ~sessionResolved,
     due |-> due, videoOn |-> isVideoOn]

\* The promise returned by ai.live.connect resolves, after onopen has run.
SessionResolved ==
    /\ transport = "open"
    /\ ~sessionResolved
    /\ sessionResolved' = TRUE
    /\ UNCHANGED << thenQ, sentAudio, blocks, wall, lastVolumeUpdate,
                    volumeUpdates >>
    /\ UNCHANGED << staleRuns, renderVars, videoVars, codecVars, errorLogged >>
    /\ UNCHANGED lifecycleVars
    /\ UNCHANGED playbackVars
    /\ UNCHANGED now
    /\ UNCHANGED restVars

\* The mic button: setIsMicOn(!isMicOn).  The effect's dependencies are
\* [onClose], so the effect does not run again and its closures keep the
\* isMicOn of the render in which it ran.
ToggleMic ==
    /\ mounted
    /\ isLiveOpen
    /\ isMicOn' = ~isMicOn
    /\ UNCHANGED << isVideoOn, seenMicOn, seenVideoOn, seenConnected >>
    /\ UNCHANGED << staleRuns, captureVars, videoVars, codecVars, errorLogged >>
    /\ UNCHANGED lifecycleVars
    /\ UNCHANGED playbackVars
    /\ UNCHANGED now
    /\ UNCHANGED restVars

\* The video button: setIsVideoOn(!isVideoOn).
ToggleVideo ==
    /\ mounted
    /\ isLiveOpen
    /\ isVideoOn' = ~isVideoOn
    /\ UNCHANGED << isMicOn, seenMicOn, seenVideoOn, seenConnected >>
    /\ UNCHANGED << staleRuns, captureVars, videoVars, codecVars, errorLogged >>
    /\ UNCHANGED lifecycleVars
    /\ UNCHANGED playbackVars
    /\ UNCHANGED now
    /\ UNCHANGED restVars

\* scriptProcessor.onaudioprocess: one block of the input device.  (A closed
\* input context delivers no block.)
AudioProcess ==
    /\ capturing
    /\ ~ctxClosed
    /\ blocks < MaxBlocks
    /\ blocks' = blocks + 1
    /\ IF ~seenMicOn
         THEN UNCHANGED << lastVolumeUpdate, volumeUpdates, thenQ >>
         ELSE /\ IF ThrottlePassed(DateNow(wall), lastVolumeUpdate)
                   THEN /\ lastVolumeUpdate' = DateNow(wall)
                        /\ volumeUpdates' = Append(volumeUpdates, DateNow(wall))
                   ELSE UNCHANGED << lastVolumeUpdate, volumeUpdates >>
              /\ thenQ' = Append(thenQ, ThenEntry("audio", blocks + 1, FALSE))
    /\ UNCHANGED << sessionResolved, sentAudio, wall >>
    /\ UNCHANGED << staleRuns, renderVars, videoVars, codecVars, errorLogged >>
    /\ UNCHANGED lifecycleVars
    /\ UNCHANGED playbackVars
    /\ UNCHANGED now
    /\ UNCHANGED restVars

\* Variant: the callback registered last runs first.
NextCallbackLast(q) == Len(q)

\* Callbacks registered on one promise run in the order of registration.
NextCallback(q) == 1

\* A callback of sessionPromise.then runs: session.sendRealtimeInput for an
\* audio block; for a video tick, if (isConnected) of the closure.
ThenCallback ==
    /\ sessionResolved
    /\ thenQ # << >>
    /\ LET n == NextCallback(thenQ)
           cb == thenQ[n]
       IN  /\ thenQ' = [k \in 1..(Len(thenQ) - 1) |->
                           IF k < n THEN thenQ[k] ELSE thenQ[k + 1]]
           /\ IF cb.kind = "audio"
                THEN /\ sentAudio' = Append(sentAudio, cb)
                     /\ UNCHANGED videoSent
                ELSE /\ videoSent' = IF seenConnected THEN videoSent + 1
                                                      ELSE videoSent
                     /\ UNCHANGED sentAudio
    /\ UNCHANGED << sessionResolved, blocks, wall, lastVolumeUpdate,
                    volumeUpdates >>
    /\ UNCHANGED << videoReady, videoTicks, videoDue >>
    /\ UNCHANGED << staleRuns, renderVars, codecVars, errorLogged >>
    /\ UNCHANGED lifecycleVars
    /\ UNCHANGED playbackVars
    /\ UNCHANGED now
    /\ UNCHANGED restVars

\* Date.now() advances.
WallTick ==
    /\ wall < MaxWallSteps
    /\ wall' = wall + 1
    /\ UNCHANGED << sessionResolved, thenQ, sentAudio, blocks,
                    lastVolumeUpdate, volumeUpdates >>
    /\ UNCHANGED << staleRuns, renderVars, videoVars, codecVars, errorLogged >>
    /\ UNCHANGED lifecycleVars
    /\ UNCHANGED playbackVars
    /\ UNCHANGED now
    /\ UNCHANGED restVars

\* The video element has a frame: video.readyState >= 2.
VideoReady ==
    /\ streamLive
    /\ ~videoReady
    /\ videoReady' = TRUE
    /\ UNCHANGED << videoTicks, videoSent, videoDue >>
    /\ UNCHANGED << staleRuns, renderVars, captureVars, codecVars, errorLogged >>
    /\ UNCHANGED lifecycleVars
    /\ UNCHANGED playbackVars
    /\ UNCHANGED now
    /\ UNCHANGED restVars

\* The callback of videoInterval (every 1000 ms): the frame is drawn and
\* encoded, and the send is left to a callback of sessionPromise.then.
VideoTick ==
    /\ intervalActive
    /\ videoTicks < MaxVideoTicks
    /\ videoTicks' = videoTicks + 1
    /\ LET due == isVideoOn /\ videoReady /\ isConnected
       IN  /\ videoDue' = IF due THEN videoDue + 1 ELSE videoDue
           /\ IF mounted /\ seenVideoOn /\ videoReady
                THEN thenQ' = Append(thenQ, ThenEntry("video", videoTicks + 1, due))
                ELSE UNCHANGED thenQ
    /\ UNCHANGED << videoReady, videoSent >>
    /\ UNCHANGED << sessionResolved, sentAudio, blocks, wall, lastVolumeUpdate,
                    volumeUpdates >>
    /\ UNCHANGED << staleRuns, renderVars, codecVars, errorLogged >>
    /\ UNCHANGED lifecycleVars
    /\ UNCHANGED playbackVars
    /\ UNCHANGED now
    /\ UNCHANGED restVars

----------------------------------------------------------------------------
(* Re-render of the parent *)

\* ChatInterface renders again (any of its state changes) while it shows the
\* session: `onClose={() => setIsLiveOpen(false)}` is a new function, the
\* effect's dependency [onClose] has changed, so React runs the cleanup of
\* the current run of the effect and then the effect again.  Modelled for a
\* run whose startSession has returned.
\* The cleanup: the run's `mounted` becomes false, its interval is cleared,
\* its session's close is asked for, the tracks are stopped, both contexts
\* are closed.  The new run: `mounted` is true and cleanupFunc undefined
\* again, new contexts are made (a new clock), the closures see the current
\* state, startSession waits for getUserMedia.  State and refs persist.
\* The callbacks still waiting for the earlier run's sessionPromise belong
\* to that run's session and are not followed; the video element has no
\* frame of the new run's stream yet.
ParentRerender ==
    /\ isLiveOpen
    /\ mounted
    /\ pc = "running"
    /\ Len(staleRuns) < MaxRerenders
    /\ staleRuns' = Append(staleRuns, transport)
    /\ pc' = "awaitMedia"
    /\ cleanupSet' = FALSE
    /\ intervalActive' = FALSE
    /\ streamLive' = FALSE
    /\ transport' = "none"
    /\ closeRequested' = FALSE
    /\ capturing' = FALSE
    /\ ctxClosed' = FALSE
    /\ now' = 0
    /\ sessionResolved' = FALSE
    /\ seenMicOn' = isMicOn
    /\ seenVideoOn' = isVideoOn
    /\ seenConnected' = isConnected
    /\ UNCHANGED << mounted, isLiveOpen, onCloseCalls, isConnected, isMicOn,
                    isVideoOn, errorLogged >>
    /\ thenQ' = << >>
    /\ videoReady' = FALSE
    /\ UNCHANGED << sentAudio, blocks, wall, lastVolumeUpdate, volumeUpdates >>
    /\ UNCHANGED << videoTicks, videoSent, videoDue >>
    /\ UNCHANGED codecVars
    /\ UNCHANGED playbackVars
    /\ UNCHANGED restVars

\* staleRuns with the k-th transport in state t.
StaleSet(k, t) == [staleRuns EXCEPT ![k] = t]

StaleUnchanged ==
    /\ UNCHANGED << renderVars, captureVars, videoVars, codecVars, errorLogged >>
    /\ UNCHANGED lifecycleVars
    /\ UNCHANGED playbackVars
    /\ UNCHANGED now
    /\ UNCHANGED restVars

\* onopen of an earlier run: if (!mounted) return.
StaleOpen(k) ==
    /\ k \in DOMAIN staleRuns
    /\ staleRuns[k] = "connecting"
    /\ staleRuns' = StaleSet(k, "open")
    /\ StaleUnchanged

\* The connect of an earlier run fails: its cleanup's .catch(() => {}).
StaleConnectFail(k) ==
    /\ k \in DOMAIN staleRuns
    /\ staleRuns[k] = "connecting"
    /\ staleRuns' = StaleSet(k, "rejected")
    /\ StaleUnchanged

\* session.close() of an earlier run's cleanup, and its onclose, which
\* finds `mounted` false.
StaleClose(k) ==
    /\ k \in DOMAIN staleRuns
    /\ staleRuns[k] = "open"
    /\ staleRuns' = StaleSet(k, "closed")
    /\ StaleUnchanged

----------------------------------------------------------------------------
(* Close button, unmount *)

\* <button onClick={onClose}>, onClose = () => setIsLiveOpen(false)
UserClose ==
    /\ isLiveOpen
    /\ mounted
    /\ onCloseCalls' = onCloseCalls + 1
    /\ isLiveOpen' = FALSE
    /\ UNCHANGED << mounted, pc, streamLive, cleanupSet, intervalActive,
                    transport, closeRequested, isConnected, capturing,
                    ctxClosed, now >>
    /\ UNCHANGED playbackVars
    /\ UNCHANGED << errorLogged, ioVars >>

\* The effect's cleanup, run when ChatInterface stops rendering LiveSession.
Unmount ==
    /\ ~isLiveOpen
    /\ mounted
    /\ mounted' = FALSE
    /\ IF cleanupSet
         THEN /\ intervalActive' = FALSE
              /\ closeRequested' = TRUE
         ELSE UNCHANGED << intervalActive, closeRequested >>
    /\ streamLive' = FALSE
    /\ ctxClosed' = TRUE
    /\ UNCHANGED << isLiveOpen, onCloseCalls, pc, cleanupSet, transport,
                    isConnected, capturing, now >>
    /\ UNCHANGED playbackVars
    /\ UNCHANGED << errorLogged, ioVars >>

----------------------------------------------------------------------------
Next ==
    \/ MediaGranted
    \/ MediaDenied
    \/ TransportOpen
    \/ ConnectFail
    \/ ServerClose
    \/ SessionClose
    \/ TransportError
    \/ Interrupt
    \/ \E inp \in ChunkInputs : ChunkArrive(inp[1], inp[2], MaxSessionChunks)
    \/ DecodeDone
    \/ \E i \in 1..MaxSessionChunks : EndedEvent(i)
    \/ Tick
    \/ UserClose
    \/ Unmount

Spec == Init /\ [][Next]_vars

\* The messages of one session up to and after its teardown, with the
\* messages the handler ignores and the messages that carry an interruption
\* and audio together; the transport neither fails nor closes by itself.
NextInbound ==
    \/ MediaGranted
    \/ TransportOpen
    \/ Interrupt
    \/ MessageIgnored
    \/ \E inp \in ChunkInputs :
           InterruptWithAudio(inp[1], inp[2], MaxSessionChunks)
    \/ \E inp \in ChunkInputs : ChunkArrive(inp[1], inp[2], MaxSessionChunks)
    \/ DecodeDone
    \/ \E i \in 1..MaxSessionChunks : EndedEvent(i)
    \/ Tick
    \/ UserClose
    \/ Unmount

SpecInbound == Init /\ [][NextInbound]_vars

----------------------------------------------------------------------------
(* The scheduler alone: a session that stays mounted, from the call of      *)
(* ai.live.connect on, whose transport stays open once it has opened and   *)
(* reports no error (onerror touches nothing of the scheduler).            *)

\* The state once startSession has called ai.live.connect and has returned.
InitRunning ==
    /\ mounted = TRUE
    /\ isLiveOpen = TRUE
    /\ onCloseCalls = 0
    /\ pc = "running"
    /\ streamLive = TRUE
    /\ cleanupSet = TRUE
    /\ intervalActive = TRUE
    /\ transport = "connecting"
    /\ closeRequested = FALSE
    /\ isConnected = FALSE
    /\ capturing = FALSE
    /\ ctxClosed = FALSE
    /\ now = 0
    /\ nextStartTime = 0
    /\ sources = {}
    /\ chunks = << >>
    /\ decodeQ = << >>
    /\ lastInterruptAt = -1
    /\ quiet = FALSE
    /\ burst = NoBurst

InitPlayback ==
    /\ InitRunning
    /\ InitIo
    /\ InitCodecIdle

NextPlayback ==
    \/ TransportOpen
    \/ Interrupt
    \/ \E inp \in ChunkInputs : ChunkArrive(inp[1], inp[2], MaxChunks)
    \/ DecodeDone
    \/ \E i \in 1..MaxChunks : EndedEvent(i)
    \/ Tick

SpecPlayback == InitPlayback /\ [][NextPlayback]_vars

----------------------------------------------------------------------------
(* The capture loop alone, and the video sampler alone, of a session that   *)
(* stays mounted, from the call of ai.live.connect on; the video sampler    *)
(* also across a re-render of the parent, after which getUserMedia is       *)
(* granted again.                                                           *)

NextCapture ==
    \/ TransportOpen
    \/ SessionResolved
    \/ ToggleMic
    \/ AudioProcess
    \/ ThenCallback
    \/ WallTick

SpecCapture == InitPlayback /\ [][NextCapture]_vars

NextVideo ==
    \/ TransportOpen
    \/ SessionResolved
    \/ ToggleVideo
    \/ VideoReady
    \/ VideoTick
    \/ ThenCallback

SpecVideo == InitPlayback /\ [][NextVideo]_vars

NextVideoRerender ==
    \/ ParentRerender
    \/ MediaGranted
    \/ NextVideo

SpecVideoRerender == InitPlayback /\ [][NextVideoRerender]_vars

----------------------------------------------------------------------------
(* Capture and video sampling together around the opening of the           *)
(* transport, on the audio clock, of a session that stays mounted.          *)

NextOutbound ==
    \/ Tick
    \/ TransportOpen
    \/ SessionResolved
    \/ AudioProcess
    \/ VideoReady
    \/ VideoTick
    \/ ThenCallback

SpecOutbound == InitPlayback /\ [][NextOutbound]_vars

----------------------------------------------------------------------------
(* The lifecycle of a session whose parent may render again.                *)

NextRerender ==
    \/ MediaGranted
    \/ MediaDenied
    \/ TransportOpen
    \/ ConnectFail
    \/ ServerClose
    \/ SessionClose
    \/ TransportError
    \/ UserClose
    \/ Unmount
    \/ ParentRerender
    \/ \E k \in 1..MaxRerenders : StaleOpen(k)
    \/ \E k \in 1..MaxRerenders : StaleConnectFail(k)
    \/ \E k \in 1..MaxRerenders : StaleClose(k)

SpecRerender == Init /\ [][NextRerender]_vars

----------------------------------------------------------------------------
(* The codec path of one sample: PCM16 conversion and base64 in             *)
(* onaudioprocess, base64 and decodeAudioData on the other side.  A sample  *)
(* x = k / 32768 is represented by k; x * 32768 is exact in floating point. *)

\* The samples of [-1, 1] that are multiples of 1 / 32768.
Samples == -32768..32768

\* inputData[i] * 32768 of the sample (k + r / 2) / 32768, as the store into
\* an Int16Array takes it: the fraction is dropped, towards zero.
TruncProduct(k, r) == IF k < 0 /\ r = 1 THEN k + 1 ELSE k

\* Variant: a store that clips at the largest int16.
ToInt16Clip(v) == IF v > 32767 THEN 32767 ELSE v

\* int16[i] = v: the store into an Int16Array wraps modulo 2^16.
ToInt16(v) == ((v + 32768) % 65536) - 32768

\* new Uint8Array(int16.buffer): the two bytes of one element, low byte
\* first.
Int16Bytes(v) == << (v % 65536) % 256, (v % 65536) \div 256 >>

\* uint8ArrayToBase64 (String.fromCharCode, btoa) of two bytes: the three
\* 6-bit digits of the text (the padding character carries nothing).
Uint8ArrayToBase64(b) ==
    << b[1] \div 4, (b[1] % 4) * 16 + b[2] \div 16, (b[2] % 16) * 4 >>

\* base64ToUint8Array (atob, charCodeAt) of a text of three digits and one
\* padding character.
Base64ToUint8Array(t) ==
    << t[1] * 4 + t[2] \div 16, (t[2] % 16) * 16 + t[3] \div 4 >>

\* new Int16Array(data.buffer): the element read back from two bytes.
BytesInt16(b) ==
    LET u == b[1] + 256 * b[2]
    IN  IF u >= 32768 THEN u - 65536 ELSE u

\* PCM16 conversion and uint8ArrayToBase64 (lines 1074-1080).
EncodeFrame ==
    /\ codecPc = "captured"
    /\ codecPc' = "encoded"
    /\ frameText' = Uint8ArrayToBase64(
                        Int16Bytes(ToInt16(TruncProduct(sampleK, sampleRem))))
    /\ UNCHANGED << sampleK, decodedK >>
    /\ UNCHANGED << staleRuns, renderVars, captureVars, videoVars, errorLogged >>
    /\ UNCHANGED lifecycleVars
    /\ UNCHANGED playbackVars
    /\ UNCHANGED now
    /\ UNCHANGED restVars

\* base64ToUint8Array and decodeAudioData: dataInt16[i] / 32768.0
DecodeFrame ==
    /\ codecPc = "encoded"
    /\ codecPc' = "decoded"
    /\ decodedK' = BytesInt16(Base64ToUint8Array(frameText))
    /\ UNCHANGED << sampleK, frameText >>
    /\ UNCHANGED << staleRuns, renderVars, captureVars, videoVars, errorLogged >>
    /\ UNCHANGED lifecycleVars
    /\ UNCHANGED playbackVars
    /\ UNCHANGED now
    /\ UNCHANGED restVars

InitCodec ==
    /\ InitRunning
    /\ InitIo
    /\ codecPc = "captured"
    /\ sampleK \in Samples
    /\ sampleRem = 0
    /\ frameText = << >>
    /\ decodedK = 0

NextCodec ==
    \/ EncodeFrame
    \/ DecodeFrame

SpecCodec == InitCodec /\ [][NextCodec]_vars

\* The encoder alone, on the samples of [-1, 1] that are multiples of
\* 1 / 65536: (sampleK + sampleRem / 2) / 32768.
InitEncode ==
    /\ InitRunning
    /\ InitIo
    /\ codecPc = "captured"
    /\ sampleK \in Samples
    /\ sampleRem \in {0, 1}
    /\ 2 * sampleK + sampleRem <= 2 * 32768
    /\ frameText = << >>
    /\ decodedK = 0

NextEncode == EncodeFrame

SpecEncode == InitEncode /\ [][NextEncode]_vars

----------------------------------------------------------------------------
(* The volume of one capture block (lines 1067-1070).  A sample is          *)
(* meterBlock[i] / Scale.  Math.sqrt is not computed: the model keeps the   *)
(* square of the volume, as the numerator of a fraction whose denominator   *)
(* is Len(meterBlock) * Scale * Scale (both sides of Math.min are           *)
(* non-negative, so the smaller square is the square of the smaller).       *)

BlockLen == 3
Scale == 4

Levels == -Scale..Scale

\* for (...) sum += inputData[i] * inputData[i], in units of 1 / Scale^2.
RECURSIVE Sum(_)
Sum(b) == IF b = << >> THEN 0 ELSE Head(b) * Head(b) + Sum(Tail(b))

\* Variant: no clamp.
MathMinNone(a, b) == a

\* Math.min
MathMin(a, b) == IF a < b THEN a ELSE b

\* Math.min(rms * 100 * 3, 100), squared: rms^2 = Sum(b) / (Len(b) Scale^2).
VolumeSq(b) ==
    MathMin(300 * 300 * Sum(b), 100 * 100 * Len(b) * Scale * Scale)

\* The body of `if (now - lastVolumeUpdateRef.current > 100)`.
MeasureVolume ==
    /\ meterPc = "measuring"
    /\ meterPc' = "measured"
    /\ volumeSq' = VolumeSq(meterBlock)
    /\ UNCHANGED << meterBlock, mixedSeen, ignoredSeen, sampleRem, decodeVars >>
    /\ UNCHANGED << staleRuns, renderVars, captureVars, videoVars, codecVars,
                    errorLogged >>
    /\ UNCHANGED lifecycleVars
    /\ UNCHANGED playbackVars
    /\ UNCHANGED now

InitVolume ==
    /\ InitRunning
    /\ InitSessionIo
    /\ InitCodecIdle
    /\ InitDecodeIdle
    /\ meterPc = "measuring"
    /\ meterBlock \in [1..BlockLen -> Levels]
    /\ volumeSq = 0

NextVolume == MeasureVolume

SpecVolume == InitVolume /\ [][NextVolume]_vars

----------------------------------------------------------------------------
(* decodeAudioData of utils.ts on a byte array of decBytes bytes whose      *)
(* first two bytes are decFirst, for numChannels = decChannels.             *)

MaxBytes == 12
MaxChannels == 2

\* The first two bytes the model distinguishes: the int16 values 0, 32767,
\* -32768 and -1.
FirstBytes == { << 0, 0 >>, << 255, 127 >>, << 0, 128 >>, << 255, 255 >> }

\* ctx.createBuffer(numChannels, frameCount, sampleRate): the length
\* argument is an unsigned long, so a fractional frameCount loses its
\* fraction.
CreateBufferLength(len16, numChannels) == len16 \div numChannels

\* The promise of decodeAudioData: `new Int16Array(data.buffer)` throws a
\* RangeError on an odd byte length, createBuffer throws NotSupportedError
\* on a length of zero; otherwise the buffer, of which the model keeps the
\* number of frames and the first sample of channel 0 times 32768.
DecodeAudioData(bytes, first, numChannels) ==
    IF bytes % 2 # 0
      THEN [kind |-> "RangeError", frames |-> 0, first |-> 0]
      ELSE LET frames == CreateBufferLength(bytes \div 2, numChannels)
           IN  IF frames = 0
                 THEN [kind |-> "NotSupportedError", frames |-> 0,
                       first |-> 0]
                 ELSE [kind |-> "buffer", frames |-> frames,
                       first |-> BytesInt16(first)]

DecodeCall ==
    /\ decPc = "called"
    /\ decPc' = "settled"
    /\ decResult' = DecodeAudioData(decBytes, decFirst, decChannels)
    /\ UNCHANGED << decBytes, decChannels, decFirst >>
    /\ UNCHANGED << mixedSeen, ignoredSeen, sampleRem, meterVars >>
    /\ UNCHANGED << staleRuns, renderVars, captureVars, videoVars, codecVars,
                    errorLogged >>
    /\ UNCHANGED lifecycleVars
    /\ UNCHANGED playbackVars
    /\ UNCHANGED now

InitDecode ==
    /\ InitRunning
    /\ InitSessionIo
    /\ InitCodecIdle
    /\ InitMeterIdle
    /\ decPc = "called"
    /\ decBytes \in 0..MaxBytes
    /\ decChannels \in 1..MaxChannels
    /\ decFirst \in FirstBytes
    /\ (decBytes < 2 => decFirst = << 0, 0 >>)
    /\ decResult = [kind |-> "none", frames |-> 0, first |-> 0]

NextDecode == DecodeCall

SpecDecode == InitDecode /\ [][NextDecode]_vars

----------------------------------------------------------------------------
(* Properties *)

Idx == DOMAIN chunks

\* Sum of the durations of chunks a..b.
RECURSIVE SumDur(_, _)
SumDur(a, b) == IF a > b THEN 0 ELSE chunks[b].dur + SumDur(a, b - 1)

\* C1: two buffers handed to the sink with no interruption between them
\* (the earlier one was not stopped) have disjoint intervals
\* [start, start + duration): the later one starts at or after the end of
\* the earlier one.
C1_NonOverlap ==
    \A i, j \in Idx :
        (i < j /\ Scheduled(chunks[i]) /\ Scheduled(chunks[j]) /\ ~chunks[i].stopped)
            => chunks[j].start >= chunks[i].start + chunks[i].dur

\* Two buffers are scheduled back to back and none was stopped.
C1_Witness ==
    /\ Len(chunks) = 2
    /\ chunks[1].st = "scheduled" /\ chunks[2].st = "scheduled"
    /\ ~chunks[1].stopped /\ ~chunks[2].stopped
    /\ sources = {1, 2}
    /\ chunks[2].start = chunks[1].start + chunks[1].dur

\* C2: of the chunks arriving at one instant with no interruption, the k-th
\* starts at the cursor value of the first one's arrival (after its clamp)
\* plus the durations of the k-1 before it.
C2_BackToBack ==
    burst.phase # "none" =>
        \A k \in burst.first..Len(chunks) :
            Scheduled(chunks[k]) =>
                chunks[k].start = burst.base + SumDur(burst.first, k - 1)

\* 500 ms then 300 ms at one instant: the second starts 500 ms after the
\* first, and the cursor stands 800 ms after the first start.
C2_Witness ==
    /\ burst.phase # "none"
    /\ burst.first = 1
    /\ Len(chunks) = 2
    /\ chunks[1].dur = 5 /\ chunks[2].dur = 3
    /\ Scheduled(chunks[1]) /\ Scheduled(chunks[2])
    /\ chunks[2].start = chunks[1].start + 5
    /\ nextStartTime = chunks[1].start + 8

\* C3: a step that processes an interruption stops every buffer of the
\* active set, leaves the set empty and the cursor at currentTime.
C3_InterruptClears ==
    [][Interrupt =>
          /\ sources' = {}
          /\ nextStartTime' = now
          /\ \A i \in sources : chunks'[i].stopped]_vars

\* An interruption has just stopped a buffer that had already played to its
\* end (its 'ended' listener had not run yet).
C3_Witness ==
    /\ lastInterruptAt = now
    /\ sources = {}
    /\ nextStartTime = now
    /\ \E i \in Idx : /\ chunks[i].st = "scheduled"
                      /\ chunks[i].stopped
                      /\ now >= PlayEnd(chunks[i])

\* C4: a chunk whose handler was suspended at the await while an
\* interruption was processed is never handed to the sink.
C4_InterruptionWins ==
    \A i \in Idx : chunks[i].crossed => chunks[i].st # "scheduled"

\* C5: source.start is never called with a time before currentTime.
C5_NeverInThePast ==
    \A i \in Idx : chunks[i].st = "scheduled" => chunks[i].start = chunks[i].playFrom

\* C6: a chunk that arrives at the instant of an interruption, as the first
\* thing after it and with no handler suspended, finds every earlier buffer
\* stopped or ended and the cursor at that instant, and is scheduled to
\* start at that instant.
C6_BargeIn ==
    (burst.phase # "none" /\ burst.barge) =>
        /\ burst.base = lastInterruptAt
        /\ \A i \in 1..(burst.first - 1) :
               /\ i \notin sources
               /\ chunks[i].st = "scheduled" => chunks[i].stopped
        /\ Scheduled(chunks[burst.first]) =>
               chunks[burst.first].start = lastInterruptAt

\* A (1000 ms) started at t and was stopped at t + 200 ms; B arrived at that
\* instant and starts at t + 200 ms.
C6_Witness ==
    /\ Len(chunks) = 2
    /\ burst.phase # "none" /\ burst.barge /\ burst.first = 2
    /\ chunks[1].dur = 10
    /\ chunks[1].stopped
    /\ chunks[1].playFrom = chunks[1].start
    /\ lastInterruptAt = chunks[1].start + 2
    /\ chunks[2].st = "scheduled"
    /\ chunks[2].start = chunks[1].start + 2

\* C7: the cursor never decreases in a step, except in a step that
\* processes an interruption, which sets it to currentTime.
C7_CursorMonotone ==
    [][IF Interrupt THEN nextStartTime' = now
                    ELSE nextStartTime' >= nextStartTime]_vars

\* The cursor has been raised past currentTime by two scheduled buffers, the
\* second one after an interruption had set it back.
C7_Witness ==
    /\ Len(chunks) = 2
    /\ chunks[1].stopped
    /\ chunks[2].st = "scheduled"
    /\ lastInterruptAt > 0
    /\ nextStartTime > now
    /\ nextStartTime < chunks[1].start + chunks[1].dur

\* C8: the handling of a chunk whose decode fails (the step in which it
\* arrives and the step in which its handler resumes in the catch) leaves
\* the cursor and the active set as they were.
C8_FailedChunkLeavesCursor ==
    [][/\ (Len(chunks') = Len(chunks) + 1 /\ chunks'[Len(chunks')].payload = "odd")
            => (nextStartTime' = nextStartTime /\ sources' = sources)
       /\ (\E i \in Idx : chunks[i].st = "decoding" /\ chunks'[i].st = "dropped")
            => (nextStartTime' = nextStartTime /\ sources' = sources)]_vars

\* C9: when getUserMedia is refused while the session is starting (it is
\* still shown and mounted), the catch block runs, no transport has been
\* opened, and onClose has then been called exactly once; after the catch
\* block has run onClose is never called again.
C9_DeniedFails ==
    [][/\ (MediaDenied /\ isLiveOpen /\ mounted)
            => (pc' = "failed" /\ transport' = "none" /\ onCloseCalls' = 1)
       /\ pc = "failed"
            => (onCloseCalls' = onCloseCalls /\ transport' = "none")]_vars

\* The refusal arrived while the session was starting: the catch block has
\* called onClose, the component is not unmounted yet.
C9_Witness ==
    /\ pc = "failed"
    /\ mounted
    /\ ~isLiveOpen
    /\ onCloseCalls = 1
    /\ transport = "none"

\* C10: once the connect of the transport has failed, the session is Failed
\* and onClose has been called.
C10_ConnectFailureFails ==
    transport = "rejected" => (pc = "failed" /\ onCloseCalls >= 1)

\* C11: once the component is unmounted and every pending operation has
\* settled (getUserMedia, the connect of the transport, the close asked
\* for by the cleanup), no track is live, no transport is open and the
\* video interval is not scheduled.
C11_TeardownReleasesAll ==
    (/\ ~mounted
     /\ pc # "awaitMedia"
     /\ transport # "connecting"
     /\ ~(closeRequested /\ transport = "open"))
        => (~streamLive /\ transport # "open" /\ ~intervalActive)

\* C12: after a "closed" notification of the transport, for as long as the
\* component is mounted, the capture handler is not installed, the video
\* interval is not scheduled, the tracks are stopped and the audio contexts
\* are closed.
C12_ClosedNotificationTearsDown ==
    (transport = "closed" /\ mounted)
        => (~capturing /\ ~intervalActive /\ ~streamLive /\ ctxClosed)

\* C17: a step of onerror changes neither the connection state, nor the
\* transport, nor the calls of onClose, nor capture, nor the video interval,
\* nor the tracks, nor the cursor, nor the active set; and isConnected
\* becomes false only in a step of onclose.
C17_ErrorNonFatal ==
    [][/\ TransportError =>
              UNCHANGED << isConnected, transport, onCloseCalls, isLiveOpen,
                           capturing, intervalActive, streamLive, ctxClosed,
                           closeRequested, nextStartTime, sources >>
       /\ (isConnected /\ ~isConnected') => (ServerClose \/ SessionClose)]_vars

\* An error has been reported; the session is connected, capturing and
\* sampling, a buffer is in the active set, onClose has not been called.
C17_Witness ==
    /\ errorLogged
    /\ transport = "open"
    /\ isConnected
    /\ capturing
    /\ intervalActive
    /\ streamLive
    /\ sources # {}
    /\ onCloseCalls = 0

C13_MutedSendsNothing ==
    \A k \in DOMAIN sentAudio : sentAudio[k].micOn

\* C14: every tick at which the camera is enabled, the video ready and the
\* session connected has exactly one image frame handed to the send, or
\* still waiting for sessionPromise.
C14_EveryDueTickSends ==
    videoDue = videoSent
               + Cardinality({k \in DOMAIN thenQ :
                                 thenQ[k].kind = "video" /\ thenQ[k].due})

\* C15: the audio frames are handed to the send in the order in which their
\* blocks were delivered.
C15_CaptureOrder ==
    \A a, b \in DOMAIN sentAudio :
        a < b => sentAudio[a].id < sentAudio[b].id

\* Three blocks were sent in order, the first two delivered before
\* sessionPromise resolved and the third after.
C15_Witness ==
    /\ Len(sentAudio) = 3
    /\ sentAudio[1].early /\ sentAudio[2].early /\ ~sentAudio[3].early
    /\ sentAudio[1].id = 1 /\ sentAudio[2].id = 2 /\ sentAudio[3].id = 3

\* C18: two consecutive calls of setVolume are at least 100 ms of Date.now()
\* apart.
C18_VolumeThrottle ==
    \A k \in 2..Len(volumeUpdates) :
        volumeUpdates[k] - volumeUpdates[k - 1] >= 100

\* Three blocks were delivered, the second one 100 ms after the first: the
\* volume was set for the first and for the third, 150 ms apart.
C18_Witness ==
    /\ blocks = 3
    /\ Len(volumeUpdates) = 2
    /\ volumeUpdates[2] - volumeUpdates[1] = 150
    /\ Len(thenQ) + Len(sentAudio) = 3

\* C19: a sample k / 32768 of [-1, 1] that has gone through the PCM16
\* conversion, the base64 text and decodeAudioData comes back as itself.
C19_RoundTrip ==
    codecPc = "decoded" => decodedK = sampleK

\* C20: while the session is connected and shown (the user has not closed
\* it), a step leaves its transport open or closed by the remote side, and
\* leaves startSession, the tracks, the video interval, the capture handler
\* and the audio contexts as they are.
C20_OnlyCloseEndsSession ==
    [][(isConnected /\ transport = "open" /\ isLiveOpen /\ mounted)
          => /\ transport' \in {"open", "closed"}
             /\ pc' = pc
             /\ streamLive' = streamLive
             /\ intervalActive' = intervalActive
             /\ capturing' = capturing
             /\ ctxClosed' = ctxClosed]_vars

\* C21: once the component is unmounted, no chunk whose handler is still
\* suspended at the await is handed to the sink, the active set gains no
\* buffer and the cursor does not move.
C21_TeardownCancelsDecodes ==
    [][~mounted =>
          /\ nextStartTime' = nextStartTime
          /\ sources' \subseteq sources
          /\ \A i \in Idx : chunks[i].st = "decoding"
                                => chunks'[i].st # "scheduled"]_vars

\* C29: once the component is unmounted, a step of onopen or of onmessage
\* leaves the connection state, the cursor, the active set, the capture
\* handler, the chunks and the suspended handlers as they are.
C29_TornDownCallbacksInert ==
    [][(/\ ~mounted
        /\ \/ TransportOpen
           \/ MessageIgnored
           \/ Interrupt
           \/ \E inp \in ChunkInputs :
                  ChunkArrive(inp[1], inp[2], MaxSessionChunks))
          => UNCHANGED << isConnected, nextStartTime, sources, capturing,
                          chunks, decodeQ >>]_vars

\* The transport opened after the cleanup and then delivered a message:
\* the session is not connected and captures nothing.
C29_Witness ==
    /\ ~mounted
    /\ transport = "open"
    /\ ignoredSeen
    /\ ~isConnected
    /\ ~capturing
    /\ chunks = << >>
    /\ nextStartTime = 0

\* C30: a step that handles a message with both the interrupted flag and
\* audio data leaves the active set empty and the cursor at currentTime,
\* and neither adds a chunk nor suspends a handler for that audio.
C30_InterruptedOnly ==
    [][(\E inp \in ChunkInputs :
            InterruptWithAudio(inp[1], inp[2], MaxSessionChunks))
          => /\ sources' = {}
             /\ nextStartTime' = now
             /\ Len(chunks') = Len(chunks)
             /\ decodeQ' = decodeQ]_vars

\* Such a message has just stopped the one buffer that was playing, 100 ms
\* or more into the session.
C30_Witness ==
    /\ mixedSeen
    /\ lastInterruptAt = now
    /\ now > 0
    /\ sources = {}
    /\ nextStartTime = now
    /\ decodeQ = << >>
    /\ Len(chunks) = 1
    /\ chunks[1].st = "scheduled"
    /\ chunks[1].stopped

\* C23: after every step the active set holds exactly the buffers that
\* were started and have neither had their 'ended' event nor been stopped
\* by an interruption; the start of a buffer handed to the sink never
\* changes; and the 'ended' event of a buffer that an interruption stopped
\* leaves the set as it is.
C23_ActiveSetExact ==
    [][/\ sources' = {i \in DOMAIN chunks' :
                          chunks'[i].st = "scheduled" /\ ~chunks'[i].stopped}
       /\ \A i \in Idx : Scheduled(chunks[i])
                              => chunks'[i].start = chunks[i].start
       /\ \A i \in Idx :
              (chunks[i].st = "scheduled" /\ chunks[i].stopped
                 /\ chunks'[i].st = "ended") => sources' = sources]_vars

\* The first buffer was stopped by an interruption and its 'ended' event
\* has run; the second one is playing and is alone in the set.
C23_Witness ==
    /\ Len(chunks) = 2
    /\ chunks[1].st = "ended" /\ chunks[1].stopped
    /\ chunks[2].st = "scheduled" /\ ~chunks[2].stopped
    /\ sources = {2}

C24_SkipsDisabledOrNotReady ==
    [][/\ (videoTicks' = videoTicks + 1 /\ ~videoReady) => thenQ' = thenQ
       /\ videoSent' = videoSent + 1
            => thenQ[NextCallback(thenQ)].videoOn]_vars

\* C25: a capture block recomputes the volume and the timestamp of the last
\* update exactly when at least 100 ms of Date.now() have passed since the
\* last update, an elapsed time of exactly 100 ms included; any other block
\* leaves both as they were.
C25_RecomputeAtHundred ==
    [][blocks' = blocks + 1 =>
         IF DateNow(wall) - lastVolumeUpdate >= 100
           THEN /\ lastVolumeUpdate' = DateNow(wall)
                /\ Len(volumeUpdates') = Len(volumeUpdates) + 1
           ELSE UNCHANGED << lastVolumeUpdate, volumeUpdates >>]_vars

\* C26: the volume of a block is within [0, 100] and equals
\* min(RMS x 300, 100): an all-zero block gives 0, a block whose RMS is at
\* least 1/3 gives 100, any other block gives RMS x 300 (stated on squares:
\* volumeSq / d is the square of the volume, q / d the square of the RMS).
C26_VolumeRange ==
    meterPc = "measured" =>
        LET q == Sum(meterBlock)
            d == Len(meterBlock) * Scale * Scale
        IN  /\ 0 <= volumeSq
            /\ volumeSq <= 100 * 100 * d
            /\ ((\A i \in DOMAIN meterBlock : meterBlock[i] = 0)
                   => volumeSq = 0)
            /\ (9 * q >= d => volumeSq = 100 * 100 * d)
            /\ (9 * q < d => volumeSq = 300 * 300 * q)

\* A block whose RMS is at least 1/3 with a sample below full scale was
\* measured as 100.
C26_Witness ==
    /\ meterPc = "measured"
    /\ 9 * Sum(meterBlock) >= Len(meterBlock) * Scale * Scale
    /\ \E i \in DOMAIN meterBlock : meterBlock[i] = 0
    /\ volumeSq = 100 * 100 * Len(meterBlock) * Scale * Scale

\* C27: the encoded int16 of a sample s is s x 32768 with its fraction
\* dropped towards zero, reduced modulo 2^16 into [-32768, 32767]: exact for
\* s in [-1, 1), and 1.0 (product 32768) wraps to -32768.
C27_EncodeTruncWrap ==
    codecPc = "encoded" =>
        LET p2 == 2 * sampleK + sampleRem
            t == IF p2 >= 0 THEN p2 \div 2 ELSE -((-p2) \div 2)
            enc == BytesInt16(Base64ToUint8Array(frameText))
        IN  /\ enc \in -32768..32767
            /\ \E w \in -1..1 : enc = t + 65536 * w
            /\ (p2 < 2 * 32768 => enc = t)
            /\ (p2 = 2 * 32768 => enc = -32768)

\* The sample 1.0 was encoded as -32768.
C27_Witness ==
    /\ codecPc = "encoded"
    /\ sampleK = 32768
    /\ BytesInt16(Base64ToUint8Array(frameText)) = -32768

\* C28: decodeAudioData fails, with no buffer, on every byte length that is
\* not a multiple of 2 x numChannels, and on every other length gives a
\* buffer of length / (2 x numChannels) frames whose samples are in [-1, 1).
C28_MalformedIffNotMultiple ==
    decPc = "settled" =>
        IF decBytes % (2 * decChannels) # 0
          THEN decResult.kind # "buffer"
          ELSE /\ decResult.kind = "buffer"
               /\ decResult.frames = decBytes \div (2 * decChannels)
               /\ decResult.first \in -32768..32767

====
